---- MODULE Spec2Model ----
(***************************************************************************)
(* A model of engineered_chatgpt_prompts.py: the command-line entry point  *)
(* (check_arguments, process_file, process_directory) and the PyQt form    *)
(* EngineeredChatgptPrompts with its button handlers.                      *)
(*                                                                         *)
(* Python strings are TLA+ strings; f-strings are concatenations (\o) and  *)
(* len() is Len.  The file system is a function from the paths the program *)
(* can name to a file's text, ABSENT, or DIRECTORY.  The two collaborators *)
(* outside the program, the serialization script and the completion API,   *)
(* are nondeterministic: every outcome they can produce is drawn with \E.  *)
(***************************************************************************)
EXTENDS Integers, Sequences, FiniteSets, TLC

VARIABLES
    pc,             \* where the process is: start, checked, done, raised, gui, aborted, call
    args,           \* the argparse.Namespace: dir, file, goal, ffilter
    fs,             \* the file system
    validation,     \* the message check_arguments raised, NONE when it passed or has not run
    err,            \* the exception that left the last operation, NONE when it returned
    probes,         \* the paths check_arguments asked os.path.exists about, in order
    opened,         \* the paths process_file opened for reading, in order
    scriptRuns,     \* executions of utils/serialize_dir.sh
    scriptExit,     \* exit status of the last execution of the script
    tempCreated,    \* whether tempfile.NamedTemporaryFile created a file
    apiCalls,       \* calls of openai.ChatCompletion.create
    last_prompt,    \* the prompt given to the last get_completion, NONE before any
    prompt_goal,    \* the goal string inserted in last_prompt
    prompt_body,    \* the body string inserted in last_prompt
    last_response,  \* the module's global last_response
    goal_text,      \* the form's goal QTextEdit
    input_text,     \* the form's input QTextEdit
    output_text     \* the form's read-only output QTextEdit

vars == <<pc, args, fs, validation, err, probes, opened, scriptRuns, scriptExit,
          tempCreated, apiCalls, last_prompt, prompt_goal, prompt_body,
          last_response, goal_text, input_text, output_text>>

history == <<probes, opened, scriptRuns, scriptExit, tempCreated>>
widgets == <<goal_text, input_text, output_text>>

(***************************************************************************)
(* Bounds of the model.                                                    *)
(***************************************************************************)
\* longest text typed into the goal area
MaxLen == 2
\* most Process clicks followed in one run of the form
MaxCalls == 2

(***************************************************************************)
(* Values.                                                                 *)
(***************************************************************************)
NONE == "<None>"
ABSENT == "<absent>"
DIRECTORY == "<directory>"

\* The characters typed in the model.  A TLA+ string admits no grave accent
\* (U+0060), so the apostrophe stands for the backtick of the Python source,
\* here and in the two prompt templates, where three of them are the delimiter.
Chars == {"a", "'"}

RECURSIVE StrUpTo(_)
StrUpTo(n) ==
    IF n = 0 THEN {""}
    ELSE LET S == StrUpTo(n - 1) IN S \cup {s \o c : s \in S, c \in Chars}

GoalFileText == "summarize"
GoalTexts == StrUpTo(MaxLen) \cup {GoalFileText}
InputTexts == {"", "Hello world"}
FlatTexts == {"", "a.txt: Hello world"}
Responses == {"Hi.", "Done."}
ApiErrors == {"APIConnectionError"}

DirPath == "/data/src"
InPath == "/data/in.txt"
GoalName == "summarize.txt"
FilterName == "has_timestamp.sh"
TempName == "/tmp/tmpk3x9"
SaveStem == "/data/new"

FsPaths == {DirPath, InPath, "goals/" \o GoalName,
            "utils/file_filters/" \o FilterName, TempName, SaveStem \o ".txt"}

\* os.path.exists
Exists(files, path) == path \in DOMAIN files /\ files[path] # ABSENT

\* a file system with the given entries and nothing else
InitialFs(d, i, g, t) ==
    [p \in FsPaths |->
        CASE p = DirPath -> d
          [] p = InPath -> i
          [] p = "goals/" \o GoalName -> g
          [] p = "utils/file_filters/" \o FilterName -> t
          [] OTHER -> ABSENT]

FileSystems ==
    {InitialFs(d, i, g, t) :
        d \in {ABSENT, DIRECTORY}, i \in {ABSENT} \cup InputTexts,
        g \in {ABSENT} \cup GoalTexts, t \in {ABSENT, "*.log"}}

\* what parse_arguments can return: every option is optional, --filter defaults to ""
Namespaces ==
    [dir : {NONE, DirPath}, file : {NONE, InPath},
     goal : {NONE, GoalName}, ffilter : {"", FilterName}]

\* what openai.ChatCompletion.create can do: answer, or raise
Completions ==
    [ok : {TRUE}, text : Responses] \cup [ok : {FALSE}, text : ApiErrors]

\* what bash utils/serialize_dir.sh can do: write text to its output file and exit
Flattenings == [exit : {0, 1}, text : FlatTexts]

(***************************************************************************)
(* Pure functions of the program.                                          *)
(***************************************************************************)
full_path_goal(input) == "goals/" \o input

full_path_filter(input) == "utils/file_filters/" \o input

\* str.endswith
EndsWith(s, suffix) ==
    /\ Len(s) >= Len(suffix)
    /\ SubSeq(s, Len(s) - Len(suffix) + 1, Len(s)) = suffix

\* the f-string of process_file
process_file_prompt(goal_txt, file_txt) ==
    "with the following goal "
    \o "(delimited by triple backticks): '''" \o goal_txt \o "'''"
    \o "process the following text with specified goal"
    \o "(delimited by triple backticks): '''" \o file_txt \o "'''"

\* a plausible slip: the space missing from both templates restored in one only
process_text_prompt_spaced(goal, input_txt) ==
    "with the following goal "
    \o "(delimited by triple backticks): '''" \o goal \o "'''"
    \o "process the following text with specified goal "
    \o "(delimited by triple backticks): '''" \o input_txt \o "'''"

\* the f-string of process_text
process_text_prompt(goal, input_txt) ==
    "with the following goal "
    \o "(delimited by triple backticks): '''" \o goal \o "'''"
    \o "process the following text with specified goal"
    \o "(delimited by triple backticks): '''" \o input_txt \o "'''"

\* a plausible slip: only the empty goal is replaced
effective_goal_empty_only(goal) ==
    IF Len(goal) < 1 THEN "summarize in 2 sentence" ELSE goal

\* the default of process_text: a goal shorter than 2 characters is replaced
effective_goal(goal) ==
    IF Len(goal) < 2 THEN "summarize in 2 sentence" ELSE goal

\* A check's result: the message of the exception it raised (NONE when it passed)
\* and the paths os.path.exists has been asked about so far.
Passed(asked) == [err |-> NONE, probes |-> asked]
Raised(message, asked) == [err |-> message, probes |-> asked]

\* check_arguments, first statement: the two targets exclude each other
check_exclusive(a, asked) ==
    IF a.dir # NONE /\ a.file # NONE
    THEN Raised("Directory and file arguments are exclusive", asked)
    ELSE Passed(asked)

\* a plausible slip: the goal is demanded of a directory target only
check_goal_dir_only(a, files, asked) ==
    LET goal_file == full_path_goal(a.goal)
        filter_file == full_path_filter(a.ffilter)
    IN  IF a.dir = NONE THEN Passed(asked)
        ELSE IF a.goal = NONE
        THEN Raised("Goal argument is required when "
                    \o "directory or file is provided", asked)
        ELSE IF ~Exists(files, goal_file)
        THEN Raised("Goal file does not exist: " \o goal_file,
                    Append(asked, goal_file))
        ELSE IF Len(a.ffilter) = 0 THEN Passed(Append(asked, goal_file))
        ELSE IF ~Exists(files, filter_file)
        THEN Raised("Filter file does not exist: " \o filter_file,
                    asked \o <<goal_file, filter_file>>)
        ELSE Passed(asked \o <<goal_file, filter_file>>)

\* check_arguments, second statement: with a target, the goal is required and
\* its file must exist, and so must the filter's file when a filter is named
check_goal(a, files, asked) ==
    LET goal_file == full_path_goal(a.goal)
        filter_file == full_path_filter(a.ffilter)
    IN  IF ~(a.dir # NONE \/ a.file # NONE) THEN Passed(asked)
        ELSE IF a.goal = NONE
        THEN Raised("Goal argument is required when "
                    \o "directory or file is provided", asked)
        ELSE IF ~Exists(files, goal_file)
        THEN Raised("Goal file does not exist: " \o goal_file,
                    Append(asked, goal_file))
        ELSE IF Len(a.ffilter) = 0 THEN Passed(Append(asked, goal_file))
        ELSE IF ~Exists(files, filter_file)
        THEN Raised("Filter file does not exist: " \o filter_file,
                    asked \o <<goal_file, filter_file>>)
        ELSE Passed(asked \o <<goal_file, filter_file>>)

\* check_arguments, third statement: the directory must exist
check_dir(a, files, asked) ==
    IF a.dir = NONE THEN Passed(asked)
    ELSE IF ~Exists(files, a.dir)
    THEN Raised("Directory does not exist: " \o a.dir, Append(asked, a.dir))
    ELSE Passed(Append(asked, a.dir))

\* check_arguments, fourth statement: the file must exist
check_file(a, files, asked) ==
    IF a.file = NONE THEN Passed(asked)
    ELSE IF ~Exists(files, a.file)
    THEN Raised("File does not exist: " \o a.file, Append(asked, a.file))
    ELSE Passed(Append(asked, a.file))

\* a plausible slip: the exclusivity of the targets is checked last
check_arguments_late(a, files) ==
    LET r2 == check_goal(a, files, <<>>)
        r3 == check_dir(a, files, r2.probes)
        r4 == check_file(a, files, r3.probes)
    IN  IF r2.err # NONE THEN r2
        ELSE IF r3.err # NONE THEN r3
        ELSE IF r4.err # NONE THEN r4
        ELSE check_exclusive(a, r4.probes)

\* check_arguments: its statements in order, the first exception ending it
check_arguments(a, files) ==
    LET r1 == check_exclusive(a, <<>>)
        r2 == check_goal(a, files, r1.probes)
        r3 == check_dir(a, files, r2.probes)
    IN  IF r1.err # NONE THEN r1
        ELSE IF r2.err # NONE THEN r2
        ELSE IF r3.err # NONE THEN r3
        ELSE check_file(a, files, r3.probes)

\* open(path, 'r') of a path that does not exist
FileNotFound(path) == "FileNotFoundError: " \o path

\* a plausible slip: a missing goal file is taken for an empty goal
process_file_empty_goal(file, goal, files, response, comp) ==
    LET goal_file == full_path_goal(goal)
        goal_txt == IF Exists(files, goal_file) THEN files[goal_file] ELSE ""
    IN  IF ~Exists(files, file)
        THEN [err |-> FileNotFound(file), opened |-> <<>>, calls |-> 0,
              prompt |-> NONE, goal |-> NONE, body |-> NONE, response |-> response]
        ELSE [err |-> IF comp.ok THEN NONE ELSE comp.text,
              opened |-> <<file>>,
              calls |-> 1,
              prompt |-> process_file_prompt(goal_txt, files[file]),
              goal |-> goal_txt,
              body |-> files[file],
              response |-> IF comp.ok THEN comp.text ELSE response]

\* process_file: the exception it ends with (NONE when it returns), the files it
\* opened, the prompt it sent and the global last_response it leaves.  comp is what
\* the completion API does if it is called.
process_file(file, goal, files, response, comp) ==
    LET goal_file == full_path_goal(goal)
        nothing == [err |-> NONE, opened |-> <<>>, calls |-> 0, prompt |-> NONE,
                    goal |-> NONE, body |-> NONE, response |-> response]
    IN  IF ~Exists(files, file)
        THEN [nothing EXCEPT !.err = FileNotFound(file)]
        ELSE IF ~Exists(files, goal_file)
        THEN [nothing EXCEPT !.err = FileNotFound(goal_file), !.opened = <<file>>]
        ELSE [err |-> IF comp.ok THEN NONE ELSE comp.text,
              opened |-> <<file, goal_file>>,
              calls |-> 1,
              prompt |-> process_file_prompt(files[goal_file], files[file]),
              goal |-> files[goal_file],
              body |-> files[file],
              response |-> IF comp.ok THEN comp.text ELSE response]

\* process_directory: process_file's result on the flattened directory, with the
\* file system it leaves and the script's exit status.  flat is what the script does.
process_directory(dir, goal, ffilter, files, response, flat, comp) ==
    LET created == [files EXCEPT ![TempName] = ""]
        flattened == [created EXCEPT ![TempName] = flat.text]
        r == process_file(TempName, goal, flattened, response, comp)
    IN  [result |-> r,
         exit |-> flat.exit,
         files |-> IF r.err = NONE
                   THEN [flattened EXCEPT ![TempName] = ABSENT]
                   ELSE flattened]

(***************************************************************************)
(* The command-line program: the block under __main__.                     *)
(***************************************************************************)
NoArgs == [dir |-> NONE, file |-> NONE, goal |-> NONE, ffilter |-> ""]

\* the state every run starts from, before any of its own work
Fresh ==
    /\ validation = NONE
    /\ err = NONE
    /\ probes = <<>>
    /\ opened = <<>>
    /\ scriptRuns = 0
    /\ scriptExit = 0
    /\ tempCreated = FALSE
    /\ apiCalls = 0
    /\ last_prompt = NONE
    /\ prompt_goal = NONE
    /\ prompt_body = NONE
    /\ last_response = ""
    /\ goal_text = ""
    /\ input_text = ""
    /\ output_text = ""

Init ==
    /\ pc = "start"
    /\ args \in Namespaces
    /\ fs \in FileSystems
    /\ Fresh

\* the effects of a process_file that ended as r, and where the caller goes next
Finish(r) ==
    /\ opened' = opened \o r.opened
    /\ apiCalls' = apiCalls + r.calls
    /\ last_prompt' = IF r.calls > 0 THEN r.prompt ELSE last_prompt
    /\ prompt_goal' = IF r.calls > 0 THEN r.goal ELSE prompt_goal
    /\ prompt_body' = IF r.calls > 0 THEN r.body ELSE prompt_body
    /\ last_response' = r.response
    /\ err' = r.err
    /\ pc' = IF r.err = NONE THEN "done" ELSE "raised"

\* a plausible slip: the exception of check_arguments is caught and the run goes on
MainCheckSwallow ==
    /\ pc = "start"
    /\ LET c == check_arguments(args, fs)
       IN  /\ validation' = c.err
           /\ err' = c.err
           /\ probes' = c.probes
           /\ pc' = "checked"
    /\ UNCHANGED <<args, fs, opened, scriptRuns, scriptExit, tempCreated, apiCalls,
                   last_prompt, prompt_goal, prompt_body, last_response, widgets>>

\* check_arguments(args): an exception it raises ends the program
MainCheck ==
    /\ pc = "start"
    /\ LET c == check_arguments(args, fs)
       IN  /\ validation' = c.err
           /\ err' = c.err
           /\ probes' = c.probes
           /\ pc' = IF c.err = NONE THEN "checked" ELSE "raised"
    /\ UNCHANGED <<args, fs, opened, scriptRuns, scriptExit, tempCreated, apiCalls,
                   last_prompt, prompt_goal, prompt_body, last_response, widgets>>

\* a call of process_file(args.file, args.goal)
RunFile ==
    /\ \E comp \in Completions :
          Finish(process_file(args.file, args.goal, fs, last_response, comp))
    /\ UNCHANGED <<args, fs, validation, probes, scriptRuns, scriptExit,
                   tempCreated, widgets>>

\* a call of process_directory(args.dir, args.goal, args.ffilter)
RunDirectory ==
    /\ \E flat \in Flattenings, comp \in Completions :
          LET d == process_directory(args.dir, args.goal, args.ffilter, fs,
                                     last_response, flat, comp)
          IN  /\ fs' = d.files
              /\ scriptExit' = d.exit
              /\ Finish(d.result)
    /\ scriptRuns' = scriptRuns + 1
    /\ tempCreated' = TRUE
    /\ UNCHANGED <<args, validation, probes, widgets>>

\* if args.dir is not None: process_directory
MainDirectory ==
    /\ pc = "checked"
    /\ args.dir # NONE
    /\ RunDirectory

\* elif args.file is not None: process_file
MainFile ==
    /\ pc = "checked"
    /\ args.dir = NONE
    /\ args.file # NONE
    /\ RunFile

\* else: the form is built and shown, and the event loop runs
MainInteractive ==
    /\ pc = "checked"
    /\ args.dir = NONE
    /\ args.file = NONE
    /\ pc' = "gui"
    /\ goal_text' = ""
    /\ input_text' = ""
    /\ output_text' = ""
    /\ UNCHANGED <<args, fs, validation, err, history, apiCalls, last_prompt,
                   prompt_goal, prompt_body, last_response>>

Next == MainCheck \/ MainDirectory \/ MainFile \/ MainInteractive

Spec == Init /\ [][Next]_vars

(***************************************************************************)
(* process_file and process_directory called on their own, with any        *)
(* arguments and any file system: no check_arguments ran before.           *)
(***************************************************************************)
Calls ==
    {a \in [dir : {NONE, DirPath}, file : {NONE, InPath},
            goal : {GoalName}, ffilter : {"", FilterName}] :
        \/ a.dir # NONE /\ a.file = NONE
        \/ a.dir = NONE /\ a.file # NONE /\ a.ffilter = ""}

InitCall ==
    /\ pc = "call"
    /\ args \in Calls
    /\ fs \in FileSystems
    /\ Fresh

CallFile ==
    /\ pc = "call"
    /\ args.file # NONE
    /\ RunFile

CallDirectory ==
    /\ pc = "call"
    /\ args.dir # NONE
    /\ RunDirectory

NextCall == CallFile \/ CallDirectory

SpecCall == InitCall /\ [][NextCall]_vars

(***************************************************************************)
(* The form EngineeredChatgptPrompts: one action per button handler, and   *)
(* the user's typing in the two editable text areas.                       *)
(***************************************************************************)
\* the files a file dialog can return: an existing regular file
Regular(files) == {p \in DOMAIN files : files[p] \notin {ABSENT, DIRECTORY}}

InitGui ==
    /\ pc = "gui"
    /\ args = NoArgs
    /\ fs = InitialFs(DIRECTORY, "Hello world", GoalFileText, "*.log")
    /\ Fresh

\* where the form is after an exception left a slot: PyQt5 from 5.5 on aborts the
\* process (qFatal), earlier versions print the traceback and go on
AfterSlotException == {"gui", "aborted"}

\* the Process button
process_text(comp) ==
    /\ pc = "gui"
    /\ apiCalls < MaxCalls
    /\ LET goal == effective_goal(goal_text)
           full_prompt == process_text_prompt(goal, input_text)
       IN  /\ last_prompt' = full_prompt
           /\ prompt_goal' = goal
           /\ prompt_body' = input_text
    /\ apiCalls' = apiCalls + 1
    /\ IF comp.ok
       THEN /\ last_response' = comp.text
            /\ output_text' = comp.text
            /\ err' = NONE
            /\ pc' = "gui"
       ELSE /\ err' = comp.text
            /\ pc' \in AfterSlotException
            /\ UNCHANGED <<last_response, output_text>>
    /\ UNCHANGED <<args, fs, validation, history, goal_text, input_text>>

\* the Load button; filename is what the dialog returns, "" when cancelled.
\* setText shows plain text as it is (no text over Chars is taken for HTML).
load_goal(filename) ==
    /\ pc = "gui"
    /\ goal_text' = IF filename # "" THEN fs[filename] ELSE goal_text
    /\ err' = NONE
    /\ UNCHANGED <<pc, args, fs, validation, history, apiCalls, last_prompt,
                   prompt_goal, prompt_body, last_response, input_text, output_text>>

\* the Save button; filename is what the dialog returns, "" when cancelled
save_goal(filename) ==
    /\ pc = "gui"
    /\ LET file == IF EndsWith(filename, ".txt") THEN filename
                   ELSE filename \o ".txt"
       IN  fs' = IF filename # "" THEN [fs EXCEPT ![file] = goal_text] ELSE fs
    /\ err' = NONE
    /\ UNCHANGED <<pc, args, validation, history, apiCalls, last_prompt,
                   prompt_goal, prompt_body, last_response, widgets>>

\* the Clear button of the goal area
clear_goal ==
    /\ pc = "gui"
    /\ goal_text' = ""
    /\ err' = NONE
    /\ UNCHANGED <<pc, args, fs, validation, history, apiCalls, last_prompt,
                   prompt_goal, prompt_body, last_response, input_text, output_text>>

\* the Clear input button
clear_input ==
    /\ pc = "gui"
    /\ input_text' = ""
    /\ err' = NONE
    /\ UNCHANGED <<pc, args, fs, validation, history, apiCalls, last_prompt,
                   prompt_goal, prompt_body, last_response, goal_text, output_text>>

\* the user edits the goal area
EditGoal(text) ==
    /\ pc = "gui"
    /\ goal_text' = text
    /\ UNCHANGED <<pc, args, fs, validation, err, history, apiCalls, last_prompt,
                   prompt_goal, prompt_body, last_response, input_text, output_text>>

\* the user edits the input area
EditInput(text) ==
    /\ pc = "gui"
    /\ input_text' = text
    /\ UNCHANGED <<pc, args, fs, validation, err, history, apiCalls, last_prompt,
                   prompt_goal, prompt_body, last_response, goal_text, output_text>>

NextGui ==
    \/ \E comp \in Completions : process_text(comp)
    \/ \E filename \in {""} \cup Regular(fs) : load_goal(filename)
    \/ \E filename \in {"", SaveStem, SaveStem \o ".txt"} : save_goal(filename)
    \/ clear_goal
    \/ clear_input
    \/ \E text \in GoalTexts : EditGoal(text)
    \/ \E text \in InputTexts : EditInput(text)

SpecGui == InitGui /\ [][NextGui]_vars

(***************************************************************************)
(* The claims.                                                             *)
(***************************************************************************)
Finished == pc \in {"done", "raised"}

\* C1: once process_directory has returned or raised, the temporary file it
\* created no longer exists, whichever of its steps failed.
C1_TempFileAlwaysRemoved ==
    (Finished /\ tempCreated) => ~Exists(fs, TempName)

\* C2: when the serialization script exits with a non-zero status,
\* process_directory ends in failure; it returns normally only if the script
\* exited with status 0.
C2_FlatteningFailurePropagates ==
    (Finished /\ scriptRuns > 0 /\ scriptExit # 0) => pc = "raised"

\* C3: when check_arguments fails the run is over at once: no completion call,
\* no run of the serialization script, no temporary file, no file opened.
C3_ValidationPrecedesWork ==
    validation # NONE =>
        /\ pc = "raised"
        /\ apiCalls = 0
        /\ last_prompt = NONE
        /\ scriptRuns = 0
        /\ ~tempCreated
        /\ ~Exists(fs, TempName)
        /\ opened = <<>>

\* check_arguments failed on its last existence check, after two that passed
C3_Witness ==
    /\ pc = "raised"
    /\ args.dir # NONE
    /\ validation = "Directory does not exist: " \o DirPath
    /\ Len(probes) = 3

\* C4: with both a directory and a file target, check_arguments raises the
\* exclusivity error without asking the file system anything, whatever goal and
\* filter are given and whatever exists.
C4_ExclusiveBeforeIO ==
    (pc # "start" /\ args.dir # NONE /\ args.file # NONE) =>
        /\ pc = "raised"
        /\ validation = "Directory and file arguments are exclusive"
        /\ probes = <<>>
        /\ opened = <<>>

\* both targets, with a goal and a filter whose files exist: every later check
\* would have asked the file system
C4_Witness ==
    /\ pc = "raised"
    /\ args.dir # NONE
    /\ args.file # NONE
    /\ args.goal # NONE
    /\ args.ffilter # ""
    /\ Exists(fs, full_path_goal(args.goal))
    /\ Exists(fs, full_path_filter(args.ffilter))
    /\ validation = "Directory and file arguments are exclusive"

OneTarget == (args.dir = NONE) # (args.file = NONE)
NoTarget == args.dir = NONE /\ args.file = NONE

\* C5: with exactly one target and no goal, check_arguments raises the
\* goal-required error whether or not the target or a filter exists; with no
\* target, check_arguments passes and the form is what runs next.
C5_GoalRequired ==
    pc # "start" =>
        /\ (OneTarget /\ args.goal = NONE) =>
              /\ pc = "raised"
              /\ validation = "Goal argument is required when "
                              \o "directory or file is provided"
        /\ NoTarget =>
              /\ validation = NONE
              /\ \/ pc = "gui"
                 \/ /\ pc = "checked"
                    /\ ENABLED MainInteractive
                    /\ ~ENABLED MainFile
                    /\ ~ENABLED MainDirectory

\* a file target that does not exist, a filter, and no goal
C5_Witness ==
    /\ pc = "raised"
    /\ args.dir = NONE
    /\ args.file # NONE
    /\ args.goal = NONE
    /\ args.ffilter # ""
    /\ ~Exists(fs, args.file)
    /\ validation = "Goal argument is required when directory or file is provided"

\* C6: process_file on a goal whose file goals/<goal> is missing raises a
\* file-not-found error and never calls the completion API, whether the input
\* file exists or not.
C6_MissingGoalNoCall ==
    (pc # "call" /\ args.file # NONE /\ ~Exists(fs, full_path_goal(args.goal))) =>
        /\ pc = "raised"
        /\ err = IF Exists(fs, args.file)
                 THEN FileNotFound(full_path_goal(args.goal))
                 ELSE FileNotFound(args.file)
        /\ apiCalls = 0
        /\ last_prompt = NONE

\* the input file exists and was opened, the goal file is missing
C6_Witness ==
    /\ pc = "raised"
    /\ args.file # NONE
    /\ Exists(fs, args.file)
    /\ ~Exists(fs, full_path_goal(args.goal))
    /\ opened = <<args.file>>
    /\ err = FileNotFound(full_path_goal(args.goal))

\* C7: after a completion call failed in the Process handler, the form is
\* still running and its output area shows the error.
C7_ErrorShownInOutput ==
    err \in ApiErrors => (pc = "gui" /\ output_text = err)

\* the prompt's goal segment: what stands between the first delimiter and the
\* rest of the template around the body
GoalSegment(prompt, body) ==
    LET before == "with the following goal (delimited by triple backticks): '''"
        after == "'''process the following text with specified goal"
                 \o "(delimited by triple backticks): '''" \o body \o "'''"
    IN  SubSeq(prompt, Len(before) + 1, Len(prompt) - Len(after))

\* C8: every Process click sends a prompt whose goal segment is the default
\* goal when the goal area holds fewer than 2 characters and the goal area's
\* text otherwise, so never a segment of fewer than 2 characters.
C8_DefaultGoalSubstituted ==
    [][apiCalls' = apiCalls + 1 =>
        /\ GoalSegment(last_prompt', input_text) =
              IF Len(goal_text) < 2 THEN "summarize in 2 sentence" ELSE goal_text
        /\ Len(GoalSegment(last_prompt', input_text)) >= 2]_vars

\* a one-character goal area after a Process click that sent the default goal
C8_Witness ==
    /\ pc = "gui"
    /\ apiCalls > 0
    /\ Len(goal_text) = 1
    /\ GoalSegment(last_prompt, prompt_body) = "summarize in 2 sentence"
    /\ output_text \in Responses

\* the length of the template around goal and body
TemplateLen == Len(process_file_prompt("", ""))

\* C9: the prompt sent for a goal and a body is the template with both
\* inserted: its length is the template's plus theirs, and the file path and
\* the form build the same prompt for the same goal and body.
C9_SamePrompt ==
    last_prompt # NONE =>
        /\ last_prompt = process_text_prompt(prompt_goal, prompt_body)
        /\ last_prompt = process_file_prompt(prompt_goal, prompt_body)
        /\ Len(last_prompt) = TemplateLen + Len(prompt_goal) + Len(prompt_body)

\* the form sent a prompt with a typed goal holding a delimiter character
C9_Witness ==
    /\ pc = "gui"
    /\ last_prompt # NONE
    /\ prompt_goal = "a'"
    /\ prompt_body = "Hello world"

\* C10: in file mode the result of validation is the one the same invocation
\* has without --filter, so a filter naming a missing file does not fail it.
C10_FilterIgnoredInFileMode ==
    (pc # "start" /\ args.dir = NONE /\ args.file # NONE) =>
        validation = check_arguments([args EXCEPT !.ffilter = ""], fs).err

====
